---- MODULE Spec2Model ----
(***************************************************************************)
(* Model of ccct (credit card categorisation tool): the Allocation class,  *)
(* the interactive allocation loop _get_allocations and the run of         *)
(* console_main (read the worksheet, validate the export, reconcile,       *)
(* allocate, write back) of ccct.py.                                       *)
(*                                                                         *)
(* Money.  Python floats are modelled as integers counting thousandths of  *)
(* the currency unit (1.25 is 1250), so that amounts carrying a third      *)
(* fractional digit exist in the model.  round(v, 2) rounds such a value   *)
(* to the nearest multiple of 10.  A value exactly half-way between two    *)
(* cents is rounded by Python according to the binary representation of    *)
(* the float, which the integer model does not carry: the direction of a   *)
(* tie is therefore an input (tieUp) of every step that rounds.            *)
(*                                                                         *)
(* float() also accepts the string "nan".  The value is carried as the     *)
(* number NaN, with the arithmetic and the comparisons of floats: nan      *)
(* propagates through + and -, round(nan, 2) is nan, and every ordering    *)
(* comparison with nan is False.                                           *)
(***************************************************************************)
EXTENDS Integers, Sequences, FiniteSets, TLC

VARIABLES
    init_amount,        \* the amount argument of Allocation.__init__
    amount_orig,        \* Allocation.amount_orig
    amount_curr,        \* Allocation.amount_curr
    allocation,         \* Allocation.allocation, one amount per column
    negative,           \* Allocation.negative
    prev,               \* the last allocate_amount call: arguments and pre-state
    listed,             \* what Allocation.to_list returned, if it was the last call
    calls,              \* number of calls on the Allocation / prompts so far
    ga_pc,              \* _get_allocations: "prompt", "returned" or "raised"
    ga_amount,          \* _get_allocations: local amount
    ga_allocations,     \* _get_allocations: local allocations
    ga_original_amount, \* _get_allocations: local original_amount
    ga_negative,        \* _get_allocations: local negative
    ga_result,          \* _get_allocations: the list returned
    alloc_columns,      \* _args.alloc_columns
    sheet_values,       \* the worksheet's A:F values, header row first
    banktranlist,       \* the parsed OFX entries, in export order
    worksheet_transactions, \* _worksheet_transactions
    transactions,       \* _transactions
    ofx_transactions,   \* _ofx_transactions
    written,            \* the update call the ledger writer received
    run_pc,             \* console_main: "read", "parse", "allocate",
                        \* "prompting", "write", "done" or "aborted"
    txn_i,              \* _allocate_ofx_transactions: loop index (1-based)
    fatal,              \* the exception that left console_main, or "none"
    run_log,            \* per record met by the loop: index and decision
    row_log,            \* per row appended: index, remainder, loop outcome
    ga_prev,            \* the last prompt of the record: its input, the
                        \* input before it, and the locals it found
    cli_alloc_columns,  \* the --alloc-columns argument, if given
    config_alloc_columns, \* the config file's alloc_columns (short names), if any
    Allocation_cols,    \* the class attribute Allocation.ALLOC_COLUMNS
    cfg_pc,             \* _resolve_config: "start", "resolved" or "fatal"
    cols_writes,        \* number of Allocation.init_cols calls so far
    alloc_made,         \* the last Allocation(amount) construction
    txn_made            \* the last Transaction(entry) construction

alloc_vars == <<init_amount, amount_orig, amount_curr, allocation, negative, prev,
                listed>>
ga_vars == <<ga_pc, ga_amount, ga_allocations, ga_original_amount, ga_negative,
             ga_result>>
run_vars == <<alloc_columns, sheet_values, banktranlist, worksheet_transactions,
              transactions, ofx_transactions, written, run_pc, txn_i, fatal,
              run_log, row_log, ga_prev>>
cfg_vars == <<cli_alloc_columns, config_alloc_columns, Allocation_cols, cfg_pc,
              cols_writes, alloc_made, txn_made>>
vars == <<init_amount, amount_orig, amount_curr, allocation, negative, prev, listed,
          cli_alloc_columns, config_alloc_columns, Allocation_cols, cfg_pc,
          cols_writes, alloc_made, txn_made, calls,
          ga_pc, ga_amount, ga_allocations, ga_original_amount, ga_negative,
          ga_result, alloc_columns, sheet_values, banktranlist,
          worksheet_transactions, transactions, ofx_transactions, written,
          run_pc, txn_i, fatal, run_log, row_log, ga_prev>>

----------------------------------------------------------------------------
(* Bounds and input domains *)

\* Number of categories of the run (Allocation.ALLOC_COLUMNS has this length).
NumCols == 2

\* Longest sequence of calls on an Allocation (or of prompts) explored.
MaxCalls == 5

ColNames == <<"a", "b", "c", "d", "e", "f">>

\* Allocation.ALLOC_COLUMNS / _args.alloc_columns: the Category Set of the run.
ALLOC_COLUMNS == SubSeq(ColNames, 1, NumCols)

\* A category token that is not in the Category Set.
invalid_col == "x"

CategoryTokens == {ALLOC_COLUMNS[i] : i \in 1..NumCols} \cup {invalid_col}

\* Transaction amounts (thousandths) handed to Allocation(amount).
Amounts == {1250, -1250, -1254, 0}

\* float('nan'): the value of the amount string "nan", which float()
\* accepts.  It is carried as this number, which stands for no amount.
NaN == 999999999

\* Amount arguments: omitted (None), a string that float() rejects, numbers
\* (the strings float() accepts, "nan" among them).
None == [kind |-> "none", val |-> 0]
NotANumber == [kind |-> "str", val |-> 0]
Num(v) == [kind |-> "num", val |-> v]

AmountValues == {0, 4, 6, 1000, 2000, -1000, -12500, NaN}

AmountTokens == {None, NotANumber} \cup {Num(v) : v \in AmountValues}

----------------------------------------------------------------------------
(* Pure helpers *)

\* Float arithmetic and comparison: nan propagates through + and -, and
\* every ordering comparison with nan is False.
Add(a, b) == IF a = NaN \/ b = NaN THEN NaN ELSE a + b
Sub(a, b) == IF a = NaN \/ b = NaN THEN NaN ELSE a - b
Less(a, b) == a # NaN /\ b # NaN /\ a < b
Greater(a, b) == a # NaN /\ b # NaN /\ a > b
LessEq(a, b) == a # NaN /\ b # NaN /\ a <= b

\* abs(v)
Abs(v) == IF v = NaN THEN NaN ELSE IF v < 0 THEN -v ELSE v

\* round(v, 2) on thousandths.
Round2(v, tieUp) ==
    IF v = NaN THEN NaN
    ELSE
    LET m == v % 10
        lo == v - m
    IN  IF m = 0 THEN v
        ELSE IF m < 5 THEN lo
        ELSE IF m > 5 THEN lo + 10
        ELSE IF tieUp THEN lo + 10 ELSE lo

\* sum(s)
RECURSIVE SeqSum(_)
SeqSum(s) == IF s = <<>> THEN 0 ELSE Add(Head(s), SeqSum(Tail(s)))

\* list.index(category) for a member of the list (1-based here).
IndexOf(cols, category) == CHOOSE i \in 1..Len(cols) : cols[i] = category

\* Faulty variant of float(): every string parses, a non-number as 0.
float_AcceptsAll(tok) == [ok |-> TRUE, val |-> tok.val]

\* Allocation.__is_valid_category
is_valid_category(category) == \E i \in 1..Len(ALLOC_COLUMNS) : ALLOC_COLUMNS[i] = category

\* float(amount): ok is FALSE where Python raises ValueError.
float(tok) == [ok |-> tok.kind = "num", val |-> tok.val]

\* Allocation.get_allocations_sum
get_allocations_sum(alloc, tieUp) == Round2(SeqSum(alloc), tieUp)

\* Faulty variants of the sign test: one that never drops a call, one that
\* tests the negative side only.
WrongSign_Never(neg, x) == FALSE

WrongSign_NegativeOnly(neg, x) == neg /\ Greater(x, 0)

\* The sign test of allocate_amount: TRUE when the call is dropped.
WrongSign(neg, x) == (neg /\ Greater(x, 0)) \/ (~neg /\ Less(x, 0))

\* Faulty variant of the clamp: the negative side is not clamped.
Clamp_PositiveOnly(neg, x, curr) == IF ~neg /\ Greater(x, curr) THEN curr ELSE x

\* "Reset over allocation to the current outstanding amount."
Clamp(neg, x, curr) ==
    IF neg /\ Less(x, curr) THEN curr
    ELSE IF ~neg /\ Greater(x, curr) THEN curr
    ELSE x

\* "Recover currently allocated amount before allocating a new amount."
Recover(curr, held) == Add(curr, held)

\* The state an allocate_amount call leaves, from the state it finds.
AllocateResult(curr, alloc, neg, category, amount, tieUp) ==
    LET same == [amount_curr |-> curr, allocation |-> alloc]
    IN  IF ~is_valid_category(category) THEN same
        ELSE
        LET index == IndexOf(ALLOC_COLUMNS, category)
            parsed == float(amount)
        IN  IF amount # None /\ ~parsed.ok THEN same
            ELSE
            LET x0 == IF amount = None THEN curr ELSE parsed.val
            IN  IF WrongSign(neg, x0) THEN same
                ELSE
                LET x == Clamp(neg, x0, curr)
                    recovered == Recover(curr, alloc[index])
                IN  [amount_curr |-> Round2(Sub(recovered, x), tieUp),
                     allocation |-> [alloc EXCEPT ![index] = x]]

----------------------------------------------------------------------------
(* Allocation object *)

NoCall == [called |-> FALSE, category |-> invalid_col, amount |-> None,
           amount_curr |-> 0, allocation |-> <<>>]

\* Allocation.to_list was not the last call.
NoList == [called |-> FALSE, result |-> <<>>]

\* Faulty variant of the constructor: the sign of the amount is kept.
AllocationInit_SignKept ==
    \E amount \in Amounts :
        /\ init_amount = amount
        /\ allocation = [i \in 1..Len(ALLOC_COLUMNS) |-> 0]
        /\ amount_orig = amount
        /\ amount_curr = amount_orig
        /\ negative = (amount_orig < 0)
        /\ prev = NoCall
        /\ listed = NoList
        /\ calls = 0

\* Allocation.__init__(amount)
AllocationInit ==
    \E amount \in Amounts :
        /\ init_amount = amount
        /\ allocation = [i \in 1..Len(ALLOC_COLUMNS) |-> 0]
        /\ amount_orig = -1 * amount
        /\ amount_curr = amount_orig
        /\ negative = (amount_orig < 0)
        /\ prev = NoCall
        /\ listed = NoList
        /\ calls = 0

\* Allocation.allocate_amount(category, amount) on the object's fields.
AllocateStep(category, amount, tieUp) ==
    LET r == AllocateResult(amount_curr, allocation, negative, category, amount, tieUp)
    IN  /\ amount_curr' = r.amount_curr
        /\ allocation' = r.allocation
        /\ prev' = [called |-> TRUE, category |-> category, amount |-> amount,
                    amount_curr |-> amount_curr, allocation |-> allocation]
        /\ listed' = NoList
        /\ UNCHANGED <<init_amount, amount_orig, negative>>

\* '' (the empty string).
Blank == [kind |-> "text", text |-> ""]

\* Faulty variant of Allocation.to_list: a zero amount is returned as the
\* number 0.
Allocation_to_list_ZeroKept(alloc) == [k \in 1..Len(alloc) |-> Num(alloc[k])]

\* Allocation.to_list: ['' if x == 0 else x for x in self.allocation].
Allocation_to_list(alloc) ==
    [k \in 1..Len(alloc) |-> IF alloc[k] = 0 THEN Blank ELSE Num(alloc[k])]

\* A call of Allocation.to_list(): the list is built and returned, no field
\* is assigned.
call_to_list ==
    /\ ~listed.called
    /\ calls < MaxCalls
    /\ calls' = calls + 1
    /\ listed' = [called |-> TRUE, result |-> Allocation_to_list(allocation)]
    /\ UNCHANGED <<init_amount, amount_orig, amount_curr, allocation, negative, prev>>
    /\ UNCHANGED ga_vars
    /\ UNCHANGED run_vars
    /\ UNCHANGED cfg_vars

\* Allocation.allocate_amount(category, amount)
allocate_amount(category, amount, tieUp) ==
    /\ calls < MaxCalls
    /\ calls' = calls + 1
    /\ AllocateStep(category, amount, tieUp)
    /\ UNCHANGED ga_vars
    /\ UNCHANGED run_vars
    /\ UNCHANGED cfg_vars

GaIdle ==
    /\ ga_pc = "idle"
    /\ ga_amount = 0
    /\ ga_allocations = <<>>
    /\ ga_original_amount = 0
    /\ ga_negative = FALSE
    /\ ga_result = <<>>

\* No update call made (also what _write_ofx_transactions leaves when it has
\* no row and returns at once).
NoWrite == [called |-> FALSE, first |-> 0, last |-> 0, ncols |-> 0, values |-> <<>>]

NoPrompt == [prompted |-> FALSE, alloc |-> <<>>, earlier |-> <<>>, amount |-> 0,
             allocations |-> <<>>]

\* No run of console_main: only the Category Set is established.
RunIdle ==
    /\ alloc_columns = ALLOC_COLUMNS
    /\ sheet_values = <<>>
    /\ banktranlist = <<>>
    /\ worksheet_transactions = <<>>
    /\ transactions = <<>>
    /\ ofx_transactions = <<>>
    /\ written = NoWrite
    /\ run_pc = "idle"
    /\ txn_i = 0
    /\ fatal = "none"
    /\ run_log = <<>>
    /\ row_log = <<>>
    /\ ga_prev = NoPrompt

\* No construction recorded.
NotMade == [made |-> FALSE]

\* _resolve_config has run and Allocation.init_cols(cols) was called.
ConfigDone(cols) ==
    /\ cli_alloc_columns = [given |-> FALSE, text |-> <<>>]
    /\ config_alloc_columns = [given |-> FALSE, cols |-> <<>>]
    /\ Allocation_cols = [set |-> TRUE, cols |-> cols]
    /\ cfg_pc = "idle"
    /\ cols_writes = 1
    /\ alloc_made = NotMade
    /\ txn_made = NotMade

ConfigIdle == ConfigDone(ALLOC_COLUMNS)

Init == AllocationInit /\ GaIdle /\ RunIdle /\ ConfigIdle

Next ==
    \/ \E category \in CategoryTokens, amount \in AmountTokens, tieUp \in BOOLEAN :
        allocate_amount(category, amount, tieUp)
    \/ call_to_list

Spec == Init /\ [][Next]_vars

----------------------------------------------------------------------------
(* The interactive allocation loop: _get_allocations(amount) *)

\* Transaction amounts (thousandths) of the records being allocated.
TrnAmts == {1250, -1250, -1254, -1000, 0}

\* The "?" token of the prompt.
QuestionMark == [kind |-> "qm", val |-> 0]

\* user_input.split(): no token, a column token, or a column and an amount
\* token (tokens after the second are never read).
ColumnTokens == CategoryTokens \cup {"?"}

PromptAmountTokens == {NotANumber, QuestionMark} \cup {Num(v) : v \in AmountValues}

UserInputs ==
    {<<>>} \cup {<<col>> : col \in ColumnTokens}
           \cup {<<col, tok>> : col \in ColumnTokens, tok \in PromptAmountTokens}

\* Lines 706-707: the sign test of the loop.
GaWrongSign(neg, amt) == (neg /\ Greater(amt, 0)) \/ (~neg /\ Less(amt, 0))

\* Faulty variant of the clamp of the loop: the request is taken as given.
GaClamp_Unclamped(neg, amt, amount) == amt

\* Lines 709-712: the clamp of the loop.
GaClamp(neg, amt, amount) ==
    IF neg /\ Less(amt, amount) THEN amount
    ELSE IF ~neg /\ Greater(amt, amount) THEN amount
    ELSE amt

\* One pass of the while loop body on the input alloc: the (amount,
\* allocations) it leaves.  Every `continue` leaves them as they are.
GaIteration(amount, allocations, neg, alloc, tieUp) ==
    LET same == [amount |-> amount, allocations |-> allocations]
    IN  IF Len(alloc) = 0 THEN same
        ELSE
        LET col == alloc[1]
        IN  IF col = "?" THEN same
            ELSE IF ~(\E i \in 1..Len(alloc_columns) : alloc_columns[i] = col) THEN same
            ELSE
            LET alloc_index == IndexOf(alloc_columns, col)
                commit(amt) ==
                    [amount |-> Round2(Sub(Add(amount, allocations[alloc_index]), amt), tieUp),
                     allocations |-> [allocations EXCEPT ![alloc_index] = amt]]
            IN  IF Len(alloc) > 1
                THEN IF alloc[2] = QuestionMark THEN same
                     ELSE IF ~float(alloc[2]).ok THEN same
                     ELSE IF GaWrongSign(neg, float(alloc[2]).val) THEN same
                     ELSE commit(GaClamp(neg, float(alloc[2]).val, amount))
                ELSE commit(amount)

AllocationIdle ==
    /\ init_amount = 0
    /\ amount_orig = 0
    /\ amount_curr = 0
    /\ allocation = <<>>
    /\ negative = FALSE
    /\ prev = NoCall
    /\ listed = NoList

\* Lines 667-672, entered from _allocate_ofx_transactions (line 752) with
\* float(-1*t.trnamt).
GaInit ==
    \E trnamt \in TrnAmts :
        /\ ga_allocations = [i \in 1..Len(alloc_columns) |-> 0]
        /\ ga_original_amount = -1 * trnamt
        /\ ga_amount = ga_original_amount
        /\ ga_negative = (ga_original_amount < 0)
        /\ ga_pc = "prompt"
        /\ ga_result = <<>>
        /\ calls = 0

\* Faulty variant of the returned list: a zero is returned as the number 0.
OutputVector_ZeroKept(allocations) ==
    [k \in 1..Len(allocations) |-> Num(allocations[k])]

\* Line 722: ['' if x == 0 else x for x in allocations].
OutputVector(allocations) ==
    [k \in 1..Len(allocations) |->
        IF allocations[k] = 0 THEN Blank ELSE Num(allocations[k])]

\* Lines 674-718 on the locals: the loop test holds, one input is read and
\* processed.
GaPromptStep(alloc, tieUp) ==
    LET r == GaIteration(ga_amount, ga_allocations, ga_negative, alloc, tieUp)
    IN  /\ ga_pc = "prompt"
        /\ ga_amount # 0
        /\ calls < MaxCalls
        /\ calls' = calls + 1
        /\ ga_amount' = r.amount
        /\ ga_allocations' = r.allocations
        /\ UNCHANGED <<ga_pc, ga_original_amount, ga_negative, ga_result>>

\* Lines 720-722 on the locals: the loop is left; the integrity check raises
\* or the allocations are returned.
GaCheckStep(tieUp) ==
    /\ ga_pc = "prompt"
    /\ ga_amount = 0
    /\ ga_pc' = IF Round2(SeqSum(ga_allocations), tieUp) # ga_original_amount
                THEN "raised" ELSE "returned"
    /\ ga_result' = IF ga_pc' = "returned" THEN OutputVector(ga_allocations) ELSE <<>>
    /\ UNCHANGED <<ga_amount, ga_allocations, ga_original_amount, ga_negative>>

\* _get_allocations called on its own: one prompt.
GaPrompt(alloc, tieUp) ==
    /\ GaPromptStep(alloc, tieUp)
    /\ UNCHANGED alloc_vars
    /\ UNCHANGED run_vars
    /\ UNCHANGED cfg_vars

\* _get_allocations called on its own: the loop exit.
GaCheck(tieUp) ==
    /\ GaCheckStep(tieUp)
    /\ UNCHANGED calls
    /\ UNCHANGED alloc_vars
    /\ UNCHANGED run_vars
    /\ UNCHANGED cfg_vars

DriverInit == AllocationIdle /\ RunIdle /\ ConfigIdle /\ GaInit

DriverNext ==
    \/ \E alloc \in UserInputs, tieUp \in BOOLEAN : GaPrompt(alloc, tieUp)
    \/ \E tieUp \in BOOLEAN : GaCheck(tieUp)

SpecDriver == DriverInit /\ [][DriverNext]_vars

\* The loop and an Allocation side by side: _get_allocations entered with
\* float(-1*t.trnamt) (line 752) next to the Allocation(t.trnamt) of the same
\* transaction (line 201).
LockstepInit ==
    /\ AllocationInit
    /\ RunIdle
    /\ ConfigIdle
    /\ GaInit
    /\ ga_original_amount = amount_orig

\* Inputs that name a column and possibly an amount, the "?" query apart.
PairInputs ==
    {alloc \in UserInputs :
        /\ Len(alloc) > 0
        /\ alloc[1] # "?"
        /\ Len(alloc) > 1 => alloc[2] # QuestionMark}

\* One input (category, amount?) read by the loop, and the same pair given
\* to allocate_amount.  Both evaluate round(remainder + held - x, 2) on the
\* same floats, so a tie falls the same way in both.
LockstepPrompt(alloc, tieUp) ==
    /\ GaPromptStep(alloc, tieUp)
    /\ AllocateStep(alloc[1], IF Len(alloc) > 1 THEN alloc[2] ELSE None, tieUp)
    /\ UNCHANGED run_vars
    /\ UNCHANGED cfg_vars

\* The loop exit, the Allocation left as it is.
LockstepCheck(tieUp) ==
    /\ GaCheckStep(tieUp)
    /\ UNCHANGED calls
    /\ UNCHANGED alloc_vars
    /\ UNCHANGED run_vars
    /\ UNCHANGED cfg_vars

LockstepNext ==
    \/ \E alloc \in PairInputs, tieUp \in BOOLEAN : LockstepPrompt(alloc, tieUp)
    \/ \E tieUp \in BOOLEAN : LockstepCheck(tieUp)

SpecLockstep == LockstepInit /\ [][LockstepNext]_vars

----------------------------------------------------------------------------
(* The run of console_main: values and pure functions *)

\* Most records in one export explored.
MaxTxns == 2

\* Cells of a row.  A Python str is a text cell; the str() of a float is
\* kept as its sign, integer part and fractional digits, so that "5.0" and
\* "5.00" are different strings; the isoformat() of a timestamp is kept as
\* the timestamp it prints (one string per timestamp, ordered like them).
\* Python's None is the value None above, a float is Num(v).
Txt(s) == [kind |-> "text", text |-> s]
DecStr(neg, int, frac) == [kind |-> "dec", neg |-> neg, int |-> int, frac |-> frac]

\* datetime.isoformat()
isoformat(d) == [kind |-> "iso", day |-> d]

\* str(trnamt) of a float: the shortest decimal text, with at least one
\* fractional digit.
StrFloat(v) ==
    LET a == Abs(v)
        f == a % 1000
        d1 == f \div 100
        d2 == (f \div 10) % 10
        d3 == f % 10
    IN  DecStr(v < 0, a \div 1000,
               IF d3 # 0 THEN <<d1, d2, d3>>
               ELSE IF d2 # 0 THEN <<d1, d2>>
               ELSE <<d1>>)

TRANSACTION_COLUMNS == <<"FITID", "DTPOSTED", "TRNTYPE", "TRNAMT", "NAME", "MEMO">>

\* The Category Set of the run's configuration.
RunColumns == <<"ap", "pc", "af">>

\* Entries of the export (posting day, amount in thousandths): a payment, a
\* purchase, a purchase carrying a third fractional digit, and a DEBIT
\* with a positive amount.
EntryA == [fitid |-> "A", dtposted |-> 2, trntype |-> "CREDIT", trnamt |-> 5000,
           name |-> "N", memo |-> None]
EntryT3 == [fitid |-> "Redacted3", dtposted |-> 1, trntype |-> "DEBIT",
            trnamt |-> -15960, name |-> "Transaction 3", memo |-> Txt("Memo")]
EntryF == [fitid |-> "F", dtposted |-> 3, trntype |-> "DEBIT", trnamt |-> -1254,
           name |-> "N", memo |-> None]
EntryBad == [fitid |-> "B", dtposted |-> 1, trntype |-> "DEBIT", trnamt |-> 10000,
             name |-> "N", memo |-> None]

Entries == {EntryA, EntryT3, EntryF, EntryBad}

BoundedSeqs(S, n) == UNION {[1..k -> S] : k \in 0..n}

\* Rows of the worksheet as the Sheets API returns them (trailing empty
\* cells cut off): EntryA's row without its memo cell, the same row with
\* amount "5.01", and EntryT3's full row.
RowA == <<Txt("A"), isoformat(2), Txt("CREDIT"), DecStr(FALSE, 5, <<0>>), Txt("N")>>
RowA501 == <<Txt("A"), isoformat(2), Txt("CREDIT"), DecStr(FALSE, 5, <<0, 1>>), Txt("N")>>
RowT3 == <<Txt("Redacted3"), isoformat(1), Txt("DEBIT"), DecStr(TRUE, 15, <<9, 6>>),
           Txt("Transaction 3"), Txt("Memo")>>

HeaderRow == [k \in 1..Len(TRANSACTION_COLUMNS) |-> Txt(TRANSACTION_COLUMNS[k])]

Sheets == {<<HeaderRow>>, <<HeaderRow, RowA>>, <<HeaderRow, RowA501>>,
           <<HeaderRow, RowT3, RowA>>}

\* Operator inputs of the run.
RunInputs == {<<"ap", Num(10000)>>, <<"pc">>, <<"af", Num(-1000)>>, <<"?">>}

\* Faulty variant: an Allocation is built whether or not the Category Set
\* is established.
AllocationNew_Unchecked(cls, amount) ==
    [ok |-> TRUE, cols |-> cls.cols,
     allocation |-> [i \in 1..Len(cls.cols) |-> 0], amount_orig |-> -1 * amount]

\* Allocation.__init__ against the class attribute cls: ok is FALSE where
\* it raises ValueError (lines 81-82).
AllocationNew(cls, amount) ==
    [ok |-> cls.set, cols |-> cls.cols,
     allocation |-> [i \in 1..Len(cls.cols) |-> 0], amount_orig |-> -1 * amount]

\* Faulty variant: only the transaction type is validated.
TransactionInit_TypeOnly(e) ==
    [ok |-> /\ AllocationNew(Allocation_cols, e.trnamt).ok
            /\ e.trntype \in {"CREDIT", "DEBIT"},
     t  |-> [fitid |-> e.fitid, dtposted |-> isoformat(e.dtposted),
             trntype |-> e.trntype, trnamt |-> e.trnamt, name |-> e.name,
             memo |-> e.memo]]

\* Transaction.__init__: ok is FALSE where it raises ValueError (from the
\* Allocation built at line 201, or from the checks of lines 206-214).
TransactionInit(e) ==
    [ok |-> /\ AllocationNew(Allocation_cols, e.trnamt).ok
            /\ e.trntype \in {"CREDIT", "DEBIT"}
            /\ ~(e.trntype = "CREDIT" /\ e.trnamt < 0)
            /\ ~(e.trntype = "DEBIT" /\ e.trnamt > 0),
     t  |-> [fitid |-> e.fitid, dtposted |-> isoformat(e.dtposted),
             trntype |-> e.trntype, trnamt |-> e.trnamt, name |-> e.name,
             memo |-> e.memo]]

\* Transaction.to_list
to_list(t) ==
    <<Txt(t.fitid), t.dtposted, Txt(t.trntype), StrFloat(t.trnamt), Txt(t.name), t.memo>>

\* Faulty variant of the padding: rows are left as fetched.
PadRow_Unpadded(row) == row

\* Line 648: row + [None] * (len(TRANSACTION_COLUMNS) - len(row)).
PadRow(row) ==
    row \o [k \in 1..(Len(TRANSACTION_COLUMNS) - Len(row)) |-> None]

\* Faulty variants of the membership test: the identifier alone decides; the
\* rows accumulated in this run count as recorded too.
InRows_FitidOnly(row, rows) == \E k \in 1..Len(rows) : rows[k][1] = row[1]

InRows_SeenInRun(row, rows) ==
    \/ \E k \in 1..Len(rows) : rows[k] = row
    \/ \E k \in 1..Len(ofx_transactions) :
            SubSeq(ofx_transactions[k], 1, Len(TRANSACTION_COLUMNS)) = row

\* Faulty variant of the membership test: the candidate is compared with
\* the last recorded row only.
InRows_LastRowOnly(row, rows) == rows # <<>> /\ rows[Len(rows)] = row

\* Line 739: ofx_transaction in _worksheet_transactions (list equality).
InRows(row, rows) == \E k \in 1..Len(rows) : rows[k] = row

----------------------------------------------------------------------------
(* The run of console_main: steps *)

\* Faulty variant: an exception is swallowed and the run goes on to write.
FatalPc_Swallowed == "write"

\* An exception that nothing catches leaves console_main: no later call of
\* the run is made.
FatalPc == "aborted"

\* Faulty variant of the loop: every other record is visited.
Advance_Skipping(i) == i + 2

\* for i, t in enumerate(_transactions): the next record.
Advance(i) == i + 1

\* Faulty variant: the row is appended whether or not the loop returned.
AppendOnReturn_Always(rows, row, returned) == Append(rows, row)

\* Lines 752-753: the append runs only once _get_allocations has returned.
AppendOnReturn(rows, row, returned) == IF returned THEN Append(rows, row) ELSE rows

\* Where console_main stands once the loop index is i.
LoopPc(i) == IF i > Len(transactions) THEN "write" ELSE "allocate"

RunInit ==
    /\ AllocationIdle
    /\ GaIdle
    /\ ConfigDone(RunColumns)
    /\ calls = 0
    /\ alloc_columns = RunColumns
    /\ sheet_values \in Sheets
    /\ banktranlist \in BoundedSeqs(Entries, MaxTxns)
    /\ worksheet_transactions = <<>>
    /\ transactions = <<>>
    /\ ofx_transactions = <<>>
    /\ written = NoWrite
    /\ run_pc = "read"
    /\ txn_i = 0
    /\ fatal = "none"
    /\ run_log = <<>>
    /\ row_log = <<>>
    /\ ga_prev = NoPrompt

\* _get_statement_worksheet_transactions: the header is deleted and the
\* rows are padded.
get_statement_worksheet_transactions ==
    /\ run_pc = "read"
    /\ worksheet_transactions' =
            [k \in 1..Len(Tail(sheet_values)) |-> PadRow(Tail(sheet_values)[k])]
    /\ run_pc' = "parse"
    /\ UNCHANGED <<alloc_columns, sheet_values, banktranlist, transactions,
                   ofx_transactions, written, txn_i, fatal, run_log, row_log, ga_prev>>
    /\ UNCHANGED <<alloc_vars, ga_vars, calls, cfg_vars>>

\* _get_ofx_transactions: a Transaction is built from every entry, in order;
\* the first ValueError leaves the run.
get_ofx_transactions ==
    LET n == Len(banktranlist)
        bad == {k \in 1..n : ~TransactionInit(banktranlist[k]).ok}
        built == IF bad = {} THEN n
                 ELSE (CHOOSE k \in bad : \A j \in bad : k <= j) - 1
    IN  /\ run_pc = "parse"
        /\ transactions' = [k \in 1..built |-> TransactionInit(banktranlist[k]).t]
        /\ fatal' = IF bad = {} THEN "none" ELSE "validation"
        /\ run_pc' = IF bad = {} THEN (IF n = 0 THEN "write" ELSE "allocate")
                     ELSE FatalPc
        /\ txn_i' = 1
        /\ UNCHANGED <<alloc_columns, sheet_values, banktranlist,
                       worksheet_transactions, ofx_transactions, written,
                       run_log, row_log, ga_prev>>
        /\ UNCHANGED <<alloc_vars, ga_vars, calls, cfg_vars>>

\* _allocate_ofx_transactions, lines 730-755: the next record is either
\* skipped or presented to the operator and _get_allocations entered
\* (lines 667-672) with float(-1*t.trnamt).
allocate_ofx_transaction ==
    LET t == transactions[txn_i]
        ofx_transaction == to_list(t)
        skip == InRows(ofx_transaction, worksheet_transactions)
    IN  /\ run_pc = "allocate"
        /\ txn_i <= Len(transactions)
        /\ run_log' = Append(run_log, [i |-> txn_i, skipped |-> skip])
        /\ IF skip
           THEN /\ txn_i' = Advance(txn_i)
                /\ run_pc' = LoopPc(txn_i')
                /\ UNCHANGED <<ga_vars, calls, ga_prev>>
           ELSE /\ ga_allocations' = [k \in 1..Len(alloc_columns) |-> 0]
                /\ ga_original_amount' = -1 * t.trnamt
                /\ ga_amount' = ga_original_amount'
                /\ ga_negative' = (ga_original_amount' < 0)
                /\ ga_pc' = "prompt"
                /\ ga_result' = <<>>
                /\ calls' = 0
                /\ ga_prev' = NoPrompt
                /\ run_pc' = "prompting"
                /\ UNCHANGED txn_i
        /\ UNCHANGED <<alloc_columns, sheet_values, banktranlist,
                       worksheet_transactions, transactions, ofx_transactions,
                       written, fatal, row_log>>
        /\ UNCHANGED <<alloc_vars, cfg_vars>>

\* One prompt of the record being allocated.
RunPrompt(alloc, tieUp) ==
    /\ run_pc = "prompting"
    /\ GaPromptStep(alloc, tieUp)
    /\ ga_prev' = [prompted |-> TRUE, alloc |-> alloc, earlier |-> ga_prev.alloc,
                   amount |-> ga_amount, allocations |-> ga_allocations]
    /\ UNCHANGED <<alloc_columns, sheet_values, banktranlist,
                   worksheet_transactions, transactions, ofx_transactions,
                   written, run_pc, txn_i, fatal, run_log, row_log>>
    /\ UNCHANGED <<alloc_vars, cfg_vars>>

\* The loop of the record is left: on the integrity error the exception
\* leaves _allocate_ofx_transactions; otherwise line 753 appends the row and
\* the for loop goes on.
RunReturn(tieUp) ==
    LET row == to_list(transactions[txn_i])
    IN  /\ run_pc = "prompting"
        /\ GaCheckStep(tieUp)
        /\ ofx_transactions' =
                AppendOnReturn(ofx_transactions, row \o OutputVector(ga_allocations),
                               ga_pc' = "returned")
        /\ row_log' =
                AppendOnReturn(row_log, [i |-> txn_i, remainder |-> ga_amount,
                                         outcome |-> ga_pc'],
                               ga_pc' = "returned")
        /\ IF ga_pc' = "returned"
           THEN /\ txn_i' = Advance(txn_i)
                /\ run_pc' = LoopPc(txn_i')
                /\ UNCHANGED fatal
           ELSE /\ fatal' = "integrity"
                /\ run_pc' = FatalPc
                /\ UNCHANGED txn_i
        /\ UNCHANGED <<alloc_columns, sheet_values, banktranlist,
                       worksheet_transactions, transactions, written, run_log,
                       ga_prev, calls>>
        /\ UNCHANGED <<alloc_vars, cfg_vars>>

\* The operator ends the input at a prompt (line 682: input() raises
\* EOFError or KeyboardInterrupt): the exception leaves console_main.
OperatorAbort ==
    LET row == to_list(transactions[txn_i])
    IN  /\ run_pc = "prompting"
        /\ ga_pc = "prompt"
        /\ ga_amount # 0
        /\ ga_pc' = "abandoned"
        /\ ofx_transactions' =
                AppendOnReturn(ofx_transactions, row \o OutputVector(ga_allocations), FALSE)
        /\ row_log' =
                AppendOnReturn(row_log, [i |-> txn_i, remainder |-> ga_amount,
                                         outcome |-> ga_pc'], FALSE)
        /\ fatal' = "operator"
        /\ run_pc' = FatalPc
        /\ UNCHANGED <<ga_amount, ga_allocations, ga_original_amount, ga_negative,
                       ga_result>>
        /\ UNCHANGED <<alloc_columns, sheet_values, banktranlist,
                       worksheet_transactions, transactions, written, txn_i,
                       run_log, ga_prev, calls>>
        /\ UNCHANGED <<alloc_vars, cfg_vars>>

\* Faulty variant of the range: the header row is not counted.
WriteRange_HeaderForgotten(r, n) == [first |-> r + 1, last |-> r + n]

\* Lines 762-765: the rows R{r + 2} to R{r + 1 + n} of the worksheet, for r
\* recorded rows and n rows to write.
WriteRange(r, n) == [first |-> r + 2, last |-> r + 1 + n]

\* _write_ofx_transactions: nothing is sent when there is no row; otherwise
\* one update of the range below the recorded rows, with the rows as they
\* were accumulated.
write_ofx_transactions ==
    /\ run_pc = "write"
    /\ written' =
            IF Len(ofx_transactions) <= 0 THEN NoWrite
            ELSE [called |-> TRUE,
                  first |-> WriteRange(Len(worksheet_transactions),
                                       Len(ofx_transactions)).first,
                  last |-> WriteRange(Len(worksheet_transactions),
                                      Len(ofx_transactions)).last,
                  ncols |-> Len(ofx_transactions[1]),
                  values |-> ofx_transactions]
    /\ run_pc' = "done"
    /\ UNCHANGED <<alloc_columns, sheet_values, banktranlist,
                   worksheet_transactions, transactions, ofx_transactions,
                   txn_i, fatal, run_log, row_log, ga_prev>>
    /\ UNCHANGED <<alloc_vars, ga_vars, calls, cfg_vars>>

RunNext ==
    \/ get_statement_worksheet_transactions
    \/ get_ofx_transactions
    \/ allocate_ofx_transaction
    \/ \E alloc \in RunInputs, tieUp \in BOOLEAN : RunPrompt(alloc, tieUp)
    \/ \E tieUp \in BOOLEAN : RunReturn(tieUp)
    \/ OperatorAbort
    \/ write_ofx_transactions

SpecRun == RunInit /\ [][RunNext]_vars

----------------------------------------------------------------------------
(* Configuration: the Category Set, and the construction of Allocation and *)
(* Transaction objects against it                                          *)

\* Longest --alloc-columns argument explored, in characters.
MaxArgLen == 4

Chars == {"a", "b", ":"}

\* The --alloc-columns argument: absent, or a string (its characters).
CliArgs ==
    {[given |-> FALSE, text |-> <<>>]}
        \cup {[given |-> TRUE, text |-> t] : t \in BoundedSeqs(Chars, MaxArgLen)}

\* The alloc_columns of the config file (short names): absent or a list.
ConfigLists ==
    {[given |-> FALSE, cols |-> <<>>]}
        \cup {[given |-> TRUE, cols |-> c] :
                c \in {<<<<"a">>, <<"b">>>>, <<<<"b">>, <<"a">>, <<"a", "b">>>>,
                       <<<<"a">>>>, <<<<"a">>, <<"a">>>>}}

\* str.split(":")
RECURSIVE Split(_)
Split(t) ==
    IF \A k \in 1..Len(t) : t[k] # ":" THEN <<t>>
    ELSE LET k == CHOOSE j \in 1..Len(t) :
                    t[j] = ":" /\ \A h \in 1..(j - 1) : t[h] # ":"
         IN  <<SubSeq(t, 1, k - 1)>> \o Split(SubSeq(t, k + 1, Len(t)))

\* _set_alloc_columns: ok is FALSE where it raises ArgumentTypeError.
set_alloc_columns(t) == [ok |-> ~(Len(Split(t)) <= 1), cols |-> Split(t)]

\* validate(instance=config, schema=schema) on the alloc_columns of the
\* config file: at least two categories, no short name twice.
SchemaAccepts(cols) ==
    /\ Len(cols) >= 2
    /\ \A i, j \in 1..Len(cols) : i # j => cols[i] # cols[j]

\* Entries handed to Transaction(entry).
TxnEntries ==
    {[fitid |-> "8423858PG12AM3XZE", dtposted |-> 5, trntype |-> ty, trnamt |-> am,
      name |-> "N", memo |-> None] :
        ty \in {"CREDIT", "DEBIT", "XFER", "credit"}, am \in {-1110, 0, 1110}}

ConfigInit ==
    /\ AllocationIdle
    /\ GaIdle
    /\ calls = 0
    /\ cli_alloc_columns \in CliArgs
    /\ config_alloc_columns \in ConfigLists
    /\ Allocation_cols = [set |-> FALSE, cols |-> <<>>]
    /\ cfg_pc = "start"
    /\ cols_writes = 0
    /\ alloc_made = NotMade
    /\ txn_made = NotMade
    /\ alloc_columns = <<>>
    /\ sheet_values = <<>>
    /\ banktranlist = <<>>
    /\ worksheet_transactions = <<>>
    /\ transactions = <<>>
    /\ ofx_transactions = <<>>
    /\ written = NoWrite
    /\ run_pc = "idle"
    /\ txn_i = 0
    /\ fatal = "none"
    /\ run_log = <<>>
    /\ row_log = <<>>
    /\ ga_prev = NoPrompt

\* _resolve_config: _parse_args (with _set_alloc_columns and
\* _is_valid_config_file as argument types), _load_from_config, the check
\* that the columns are known, Allocation.init_cols.  alloc_columns = <<>>
\* stands for _args.alloc_columns == None.
resolve_config ==
    LET parsed == set_alloc_columns(cli_alloc_columns.text)
        cli_bad == cli_alloc_columns.given /\ ~parsed.ok
        config_bad == config_alloc_columns.given
                        /\ ~SchemaAccepts(config_alloc_columns.cols)
        cols == IF cli_alloc_columns.given THEN parsed.cols
                ELSE IF config_alloc_columns.given THEN config_alloc_columns.cols
                ELSE <<>>
        failed == cli_bad \/ config_bad \/ cols = <<>>
    IN  /\ cfg_pc = "start"
        /\ cfg_pc' = IF failed THEN "fatal" ELSE "resolved"
        /\ alloc_columns' = IF failed THEN alloc_columns ELSE cols
        /\ Allocation_cols' = IF failed THEN Allocation_cols
                              ELSE [set |-> TRUE, cols |-> cols]
        /\ cols_writes' = IF failed THEN cols_writes ELSE cols_writes + 1
        /\ UNCHANGED <<cli_alloc_columns, config_alloc_columns, alloc_made, txn_made>>
        /\ UNCHANGED <<sheet_values, banktranlist, worksheet_transactions,
                       transactions, ofx_transactions, written, run_pc, txn_i,
                       fatal, run_log, row_log, ga_prev>>
        /\ UNCHANGED <<alloc_vars, ga_vars, calls>>

\* Allocation(amount), before or after the Category Set is established.
construct_allocation(amount) ==
    /\ cfg_pc \in {"start", "resolved"}
    /\ alloc_made' = [made |-> TRUE, established |-> Allocation_cols.set,
                      r |-> AllocationNew(Allocation_cols, amount)]
    /\ UNCHANGED <<cli_alloc_columns, config_alloc_columns, Allocation_cols, cfg_pc,
                   cols_writes, txn_made>>
    /\ UNCHANGED <<alloc_vars, ga_vars, calls, run_vars>>

\* Transaction(entry), before or after the Category Set is established.
construct_transaction(e) ==
    /\ cfg_pc \in {"start", "resolved"}
    /\ txn_made' = [made |-> TRUE, established |-> Allocation_cols.set,
                    entry |-> e, ok |-> TransactionInit(e).ok]
    /\ UNCHANGED <<cli_alloc_columns, config_alloc_columns, Allocation_cols, cfg_pc,
                   cols_writes, alloc_made>>
    /\ UNCHANGED <<alloc_vars, ga_vars, calls, run_vars>>

ConfigNext ==
    \/ resolve_config
    \/ \E amount \in Amounts : construct_allocation(amount)
    \/ \E e \in TxnEntries : construct_transaction(e)

SpecConfig == ConfigInit /\ [][ConfigNext]_vars

----------------------------------------------------------------------------
(* Properties of the Allocation object (checked under Spec) *)

\* The call recorded in prev, as the claims speak of it.
PrevValid == prev.called /\ is_valid_category(prev.category)
PrevIndex == IndexOf(ALLOC_COLUMNS, prev.category)
PrevNumeric == prev.amount.kind = "num"
PrevX == prev.amount.val
\* The sign-matching rule, stated on the sign-flipped original.
PrevSignMismatch ==
    \/ (amount_orig < 0 /\ Greater(PrevX, 0))
    \/ (amount_orig >= 0 /\ Less(PrevX, 0))
Unchanged == amount_curr = prev.amount_curr /\ allocation = prev.allocation

\* C1: after every allocate call, remainder + allocated_sum() equals the
\* sign-flipped original amount within a tolerance of 0.01 (10 thousandths),
\* whichever way a rounding tie falls.
C1_Conservation ==
    \E tieUp \in BOOLEAN :
        LessEq(Abs(Sub(Add(amount_curr, get_allocations_sum(allocation, tieUp)),
                       amount_orig)), 10)

\* C2: whenever the remainder is zero, allocated_sum() equals the
\* sign-flipped original amount.
C2_FullyAllocatedSum ==
    amount_curr = 0 =>
        \E tieUp \in BOOLEAN : get_allocations_sum(allocation, tieUp) = amount_orig

\* C4: every non-zero entry of the allocated vector has the sign of the
\* sign-flipped original amount.
C4_SameSign ==
    \A i \in 1..Len(allocation) :
        allocation[i] # 0 =>
            \/ Less(allocation[i], 0) /\ amount_orig < 0
            \/ Greater(allocation[i], 0) /\ amount_orig > 0

\* C5: allocate(category) with the amount omitted, on a valid category,
\* leaves the remainder zero.
C5_OmittedAllocatesAll ==
    (PrevValid /\ prev.amount = None) => amount_curr = 0

\* C6: on a transaction of amount -1.25, allocate(c, 1.0) followed by
\* allocate(c, 2.0) leaves c holding 2.0 limited to the remainder that
\* includes the returned 1.0, that is 1.25.
C6_ReplaceClampedToRemainder ==
    (/\ PrevValid
     /\ amount_orig = 1250
     /\ prev.amount_curr = 250
     /\ prev.allocation = [i \in 1..Len(ALLOC_COLUMNS) |-> IF i = PrevIndex THEN 1000 ELSE 0]
     /\ prev.amount = Num(2000))
    => allocation[PrevIndex] = 1250

\* C7: allocate(c, x) on a category that already holds an amount, with x of
\* the correct sign and no larger in magnitude than the remainder, leaves
\* allocated[c] = x, the other categories unchanged and
\* remainder = round(original - sum of the category amounts, 2).
C7_ReplaceWithinRemainder ==
    (/\ PrevValid
     /\ PrevNumeric
     /\ prev.allocation[PrevIndex] # 0
     /\ ~PrevSignMismatch
     /\ LessEq(Abs(PrevX), Abs(prev.amount_curr)))
    => /\ allocation[PrevIndex] = PrevX
       /\ \A j \in 1..Len(allocation) : j # PrevIndex => allocation[j] = prev.allocation[j]
       /\ \E tieUp \in BOOLEAN :
            amount_curr = Round2(Sub(amount_orig, SeqSum(allocation)), tieUp)

\* C8: calling allocate(c, x) a second time with the same arguments leaves
\* the remainder and the allocated vector as the first call left them.
C8_Idempotent ==
    (PrevValid /\ PrevNumeric) =>
        \E tieUp \in BOOLEAN :
            AllocateResult(amount_curr, allocation, negative,
                           prev.category, prev.amount, tieUp)
                = [amount_curr |-> amount_curr, allocation |-> allocation]

\* C9: for a category with no prior allocation, allocate(c, x) with x of the
\* correct sign and |x| > |remainder| sets allocated[c] to the pre-call
\* remainder and the remainder to zero.
C9_OverAllocationClamps ==
    (/\ PrevValid
     /\ PrevNumeric
     /\ prev.allocation[PrevIndex] = 0
     /\ ~PrevSignMismatch
     /\ Greater(Abs(PrevX), Abs(prev.amount_curr)))
    => /\ allocation[PrevIndex] = prev.amount_curr
       /\ amount_curr = 0

\* On amount 1.25 (sign-flipped: -1.25), allocate(cat, -12.50).
C9_Witness ==
    /\ PrevValid
    /\ amount_orig = -1250
    /\ prev.amount = Num(-12500)
    /\ prev.amount_curr = -1250
    /\ prev.allocation[PrevIndex] = 0
    /\ allocation[PrevIndex] = -1250
    /\ amount_curr = 0

\* C10: an allocate call whose requested amount has the wrong sign leaves
\* the remainder and every category amount unchanged.
C10_WrongSignNoOp ==
    (prev.called /\ PrevNumeric /\ PrevSignMismatch) => Unchanged

\* On amount 1.25, allocate(cat, +1.0), after an earlier allocation.
C10_Witness ==
    /\ PrevValid
    /\ amount_orig = -1250
    /\ prev.amount = Num(1000)
    /\ \E i \in 1..Len(allocation) : allocation[i] # 0
    /\ Unchanged

C12_Construction ==
    ~prev.called =>
        /\ amount_orig = -1 * init_amount
        /\ amount_curr = amount_orig
        /\ Len(allocation) = Len(ALLOC_COLUMNS)
        /\ \A i \in 1..Len(allocation) : allocation[i] = 0
        /\ \A tieUp \in BOOLEAN : get_allocations_sum(allocation, tieUp) = 0
        /\ (amount_curr = 0) <=> (init_amount = 0)

\* Allocation(1.25) just constructed: remainder -1.25, not fully allocated.
C12_Witness ==
    /\ ~prev.called
    /\ init_amount = 1250
    /\ amount_orig = -1250
    /\ amount_curr = -1250
    /\ allocation = [i \in 1..Len(ALLOC_COLUMNS) |-> 0]

\* C24: Allocation.to_list returns one value per category, in Category Set
\* order: '' where the category's amount is zero and the amount itself
\* otherwise; the call changes neither the remainder nor the vector.
C24_ToListPure ==
    /\ [](listed.called =>
            /\ Len(listed.result) = Len(ALLOC_COLUMNS)
            /\ \A k \in 1..Len(ALLOC_COLUMNS) :
                   listed.result[k] =
                       IF allocation[k] = 0 THEN Blank ELSE Num(allocation[k]))
    /\ [][listed'.called =>
            /\ amount_curr' = amount_curr
            /\ allocation' = allocation
            /\ amount_orig' = amount_orig]_vars

C24_Witness ==
    /\ listed.called
    /\ prev.called
    /\ \E j, k \in 1..Len(allocation) : allocation[j] = 0 /\ allocation[k] # 0
    /\ amount_curr # 0

\* The call recorded in prev was accepted: valid category, amount omitted
\* or numeric, sign not opposed to the original's.
PrevAccepted ==
    /\ PrevValid
    /\ prev.amount # None => (PrevNumeric /\ ~WrongSign(negative, PrevX))

\* The amount the call recorded in prev asked for.
PrevRequested == IF prev.amount = None THEN prev.amount_curr ELSE PrevX

\* The clamp is taken on the pre-call remainder: an accepted allocate(c, x)
\* with x other than nan leaves allocated[c] = x limited in magnitude to the
\* remainder the call found, and zero when that remainder was zero.
C25_ClampOnPreCallRemainder ==
    (PrevAccepted /\ PrevRequested # NaN) =>
        /\ allocation[PrevIndex] =
              IF Greater(Abs(PrevRequested), Abs(prev.amount_curr))
              THEN prev.amount_curr ELSE PrevRequested
        /\ prev.amount_curr = 0 => allocation[PrevIndex] = 0

\* C25 (as stated): an accepted allocate(c, x) sets allocated[c] to x
\* limited in magnitude to the pre-call remainder; when that remainder is
\* zero it sets c to zero and returns the whole previous amount of c to the
\* remainder.
C25_ZeroRemainderReturnsWhole ==
    PrevAccepted =>
        /\ allocation[PrevIndex] =
              IF Greater(Abs(PrevRequested), Abs(prev.amount_curr))
              THEN prev.amount_curr ELSE PrevRequested
        /\ prev.amount_curr = 0 =>
              /\ allocation[PrevIndex] = 0
              /\ amount_curr = prev.allocation[PrevIndex]

\* C28 (as stated): in every reachable state the remainder is zero or has
\* the sign of the sign-flipped original, its magnitude does not exceed the
\* original's, and no category amount exceeds the original in magnitude.
C28_RemainderWithinOriginal ==
    /\ \/ amount_curr = 0
       \/ Less(amount_curr, 0) /\ amount_orig < 0
       \/ Greater(amount_curr, 0) /\ amount_orig > 0
    /\ LessEq(Abs(amount_curr), Abs(amount_orig))
    /\ \A i \in 1..Len(allocation) : LessEq(Abs(allocation[i]), Abs(amount_orig))

----------------------------------------------------------------------------
(* Properties of the run (checked under SpecRun) *)

\* The record a row of the run was built from, and the record's tuple.
RowTxn(k) == transactions[row_log[k].i]
LogTuple(k) == to_list(transactions[run_log[k].i])

\* Some recorded row equals the tuple field for field, on all six fields.
Recorded(tuple) ==
    \E r \in 1..Len(worksheet_transactions) :
        /\ Len(worksheet_transactions[r]) = 6
        /\ \A f \in 1..6 : worksheet_transactions[r][f] = tuple[f]

\* The end-to-end scenario: Category Set [ap, pc, af], a DEBIT of -15.96,
\* the operator answers `ap 10.00`, then `pc`, and the loop returns.
C13_Scenario ==
    /\ alloc_columns = <<"ap", "pc", "af">>
    /\ ga_pc = "returned"
    /\ calls = 2
    /\ ga_prev.earlier = <<"ap", Num(10000)>>
    /\ ga_prev.alloc = <<"pc">>
    /\ row_log # <<>>
    /\ RowTxn(Len(row_log)).trntype = "DEBIT"
    /\ RowTxn(Len(row_log)).trnamt = -15960

\* C13 as stated: the scenario ends with output vector [10.00, -5.96, '']
\* and allocated sum -15.96.
C13_AsStated ==
    C13_Scenario =>
        /\ ga_result = <<Num(10000), Num(-5960), Blank>>
        /\ \A tieUp \in BOOLEAN : Round2(SeqSum(ga_allocations), tieUp) = -15960

\* C13 (amended): the scenario ends with output vector [10.00, 5.96, ''],
\* the row appended carries it after the six record fields, and the
\* allocated sum is 15.96, the sign-flipped amount.
C13_ScenarioOutput ==
    C13_Scenario =>
        /\ ga_result = <<Num(10000), Num(5960), Blank>>
        /\ ofx_transactions[Len(ofx_transactions)]
                = to_list(RowTxn(Len(row_log))) \o ga_result
        /\ \A tieUp \in BOOLEAN : Round2(SeqSum(ga_allocations), tieUp) = 15960

C13_Witness ==
    /\ C13_Scenario
    /\ ga_prev.amount = 5960
    /\ ga_prev.allocations = <<10000, 0, 0>>
    /\ ga_amount = 0

\* C14: a candidate is skipped exactly when its six-field tuple equals some
\* recorded row field for field; a candidate that differs from every
\* recorded row in some field is forwarded for allocation.
C14_FullTupleComparison ==
    \A k \in 1..Len(run_log) : run_log[k].skipped <=> Recorded(LogTuple(k))

\* A candidate forwarded although a recorded row differs from it in the
\* amount only.
C14_Witness ==
    \E k \in 1..Len(run_log), r \in 1..Len(worksheet_transactions) :
        /\ ~run_log[k].skipped
        /\ \A f \in {1, 2, 3, 5, 6} : worksheet_transactions[r][f] = LogTuple(k)[f]
        /\ worksheet_transactions[r][4] # LogTuple(k)[4]

\* C15: once read, every recorded row has six cells, the fetched ones
\* followed by None; a candidate whose memo is None and whose other five
\* fields equal a fetched five-cell row is skipped.
C15_ShortRowsPadded ==
    /\ run_pc # "read" =>
            \A r \in 1..Len(worksheet_transactions) :
                LET raw == sheet_values[r + 1]
                IN  /\ Len(worksheet_transactions[r]) = 6
                    /\ \A f \in 1..6 :
                            worksheet_transactions[r][f]
                                = IF f <= Len(raw) THEN raw[f] ELSE None
    /\ \A k \in 1..Len(run_log), r \in 2..Len(sheet_values) :
            (/\ Len(sheet_values[r]) = 5
             /\ LogTuple(k)[6] = None
             /\ \A f \in 1..5 : sheet_values[r][f] = LogTuple(k)[f])
            => run_log[k].skipped

C15_Witness ==
    \E k \in 1..Len(run_log), r \in 2..Len(sheet_values) :
        /\ Len(sheet_values[r]) = 5
        /\ LogTuple(k)[6] = None
        /\ \A f \in 1..5 : sheet_values[r][f] = LogTuple(k)[f]
        /\ run_log[k].skipped

\* Two records met by the loop, the first before the second, with the same
\* six-field tuple, which no recorded row equals.
SameRunTwins(j, k) ==
    /\ j < k
    /\ LogTuple(j) = LogTuple(k)
    /\ ~Recorded(LogTuple(k))

\* C16 as stated: of two records of one run with identical tuples that are
\* not recorded, the first is forwarded and the second is skipped.
C16_AsStated ==
    \A j, k \in 1..Len(run_log) :
        SameRunTwins(j, k) => (~run_log[j].skipped /\ run_log[k].skipped)

\* C16 (amended): of two records of one run with identical tuples that are
\* not recorded, both are forwarded for allocation, and each one whose loop
\* returned has a row of its own among the rows for the writer.
C16_BothForwarded ==
    \A j, k \in 1..Len(run_log) :
        SameRunTwins(j, k) =>
            /\ ~run_log[j].skipped
            /\ ~run_log[k].skipped
            /\ run_pc \in {"write", "done"} =>
                    \E a, b \in 1..Len(row_log) :
                        a # b /\ row_log[a].i = run_log[j].i /\ row_log[b].i = run_log[k].i

\* Both twins allocated and written.
C16_Witness ==
    /\ written.called
    /\ \E j, k \in 1..Len(run_log) : SameRunTwins(j, k)
    /\ Len(written.values) = 2
    /\ SubSeq(written.values[1], 1, 6) = SubSeq(written.values[2], 1, 6)

\* C17: the rows handed to the ledger writer are in ascending order of
\* posting timestamp.
C17_SortedByTimestamp ==
    written.called =>
        \A a, b \in 1..Len(written.values) :
            a < b => written.values[a][2].day <= written.values[b][2].day

\* The records met so far that were presented to the operator, and the new
\* records of the input, both as input positions.
Presented ==
    LET Forwarded(e) == ~e.skipped
        log == SelectSeq(run_log, Forwarded)
    IN  [k \in 1..Len(log) |-> log[k].i]
NewRecords ==
    LET IsNew(j) == ~Recorded(to_list(transactions[j]))
    IN  SelectSeq([j \in 1..Len(transactions) |-> j], IsNew)

\* C18: the records presented to the operator are, in this order, the
\* first new records of the input (each once, none left out, none out of
\* place), and all of them once the loop over the records has ended.
C18_StableFilter ==
    /\ Len(Presented) <= Len(NewRecords)
    /\ \A k \in 1..Len(Presented) : Presented[k] = NewRecords[k]
    /\ run_pc \in {"write", "done"} => Presented = NewRecords

\* Two new records, the later-posted one first in the export, both
\* presented in export order, and the loop has ended.
C18_Witness ==
    /\ run_pc = "done"
    /\ Presented = <<1, 2>>
    /\ transactions[1].dtposted.day > transactions[2].dtposted.day

\* C19: every row accumulated for, and every row handed to, the ledger
\* writer was appended after its record's loop returned with remainder
\* zero; a record whose loop was abandoned (operator abort, or the
\* integrity error) has no row.
C19_OnlyFullyAllocatedRows ==
    /\ Len(row_log) = Len(ofx_transactions)
    /\ \A k \in 1..Len(row_log) :
            /\ row_log[k].remainder = 0
            /\ row_log[k].outcome = "returned"
            /\ SubSeq(ofx_transactions[k], 1, 6) = to_list(RowTxn(k))
    /\ written.called => written.values = ofx_transactions
    /\ ga_pc \in {"abandoned", "raised"} =>
            \A k \in 1..Len(row_log) : row_log[k].i # txn_i

\* The operator leaves the second record after a partial allocation; the
\* first record's row stands alone.
C19_Witness ==
    /\ ga_pc = "abandoned"
    /\ \E c \in 1..Len(ga_allocations) : ga_allocations[c] # 0
    /\ ga_amount # 0
    /\ Len(ofx_transactions) = 1
    /\ txn_i = 2

\* C20: once a Transaction validation failure or the allocation integrity
\* error has occurred, the ledger writer is never called.
C20_FatalErrorNoWrite ==
    fatal \in {"validation", "integrity"} => ~written.called

\* The integrity error on the second record, after the first record's row
\* was appended.
C20_Witness ==
    /\ fatal = "integrity"
    /\ Len(ofx_transactions) = 1
    /\ run_pc = "aborted"
    /\ ~written.called

\* C29: when the recorded rows, once padded, hold the full tuple of every
\* candidate, every candidate is skipped, the operator is never prompted,
\* no row is accumulated and the writer sends nothing.
C29_RerunIdempotent ==
    (\A j \in 1..Len(transactions) : Recorded(to_list(transactions[j]))) =>
        /\ \A k \in 1..Len(run_log) : run_log[k].skipped
        /\ run_pc = "done" => Len(run_log) = Len(transactions)
        /\ run_pc # "prompting"
        /\ ga_pc = "idle"
        /\ ~ga_prev.prompted
        /\ ofx_transactions = <<>>
        /\ ~written.called

\* A run over two candidates, both recorded (one as a five-cell row), ended.
C29_Witness ==
    /\ run_pc = "done"
    /\ Len(transactions) = 2
    /\ transactions[1] # transactions[2]
    /\ \A j \in 1..Len(transactions) : Recorded(to_list(transactions[j]))
    /\ Len(run_log) = 2
    /\ ~written.called

\* C30: with r recorded rows and n > 0 new rows, the writer is given the
\* n rows for the worksheet rows r + 2 to r + 1 + n, row 1 being the header:
\* the rows that follow the last fetched row.
C30_WriteRange ==
    written.called =>
        /\ Len(written.values) > 0
        /\ written.first = (Len(sheet_values) - 1) + 2
        /\ written.last = (Len(sheet_values) - 1) + 1 + Len(written.values)
        /\ written.first = Len(sheet_values) + 1
        /\ (written.last - written.first) + 1 = Len(written.values)
        /\ written.values = ofx_transactions

\* One recorded row and two new rows: rows 3 and 4 are written.
C30_Witness ==
    /\ written.called
    /\ Len(worksheet_transactions) = 1
    /\ Len(written.values) = 2
    /\ written.first = 3
    /\ written.last = 4

----------------------------------------------------------------------------
(* Properties of the configuration (checked under SpecConfig) *)

\* The entry passes the checks of Transaction.__init__ on type and sign.
ValidEntry(e) ==
    /\ e.trntype \in {"CREDIT", "DEBIT"}
    /\ ~(e.trntype = "CREDIT" /\ e.trnamt < 0)
    /\ ~(e.trntype = "DEBIT" /\ e.trnamt > 0)

C22_AcceptedSetWellFormed ==
    cfg_pc = "resolved" =>
        /\ Len(Allocation_cols.cols) >= 2
        /\ \A i, j \in 1..Len(Allocation_cols.cols) :
               i # j => Allocation_cols.cols[i] # Allocation_cols.cols[j]

\* C23: the Category Set is written at most once and only by the
\* resolution of the configuration; an Allocation constructed before it is
\* established fails; every Allocation constructed afterwards succeeds, sees
\* the Category Set as it still is, and has a vector of the set's length.
C23_CategorySetWrittenOnce ==
    /\ cols_writes <= 1
    /\ Allocation_cols.set <=> cols_writes = 1
    /\ Allocation_cols.set <=> cfg_pc = "resolved"
    /\ alloc_made.made =>
        /\ alloc_made.r.ok <=> alloc_made.established
        /\ alloc_made.r.ok =>
            /\ Allocation_cols.set
            /\ alloc_made.r.cols = Allocation_cols.cols
            /\ alloc_made.r.cols = alloc_columns
            /\ Len(alloc_made.r.allocation) = Len(Allocation_cols.cols)
    /\ (txn_made.made /\ txn_made.ok) => txn_made.established

C23_Witness ==
    /\ cfg_pc = "resolved"
    /\ alloc_made.made
    /\ alloc_made.r.ok
    /\ Len(alloc_made.r.allocation) = 3
    /\ txn_made.made
    /\ ~txn_made.established

----------------------------------------------------------------------------
(* Properties of the allocation loop (checked under SpecDriver) *)

\* C3: when the loop is left, the rounded sum of the allocations equals the
\* amount to allocate: the integrity error is never raised.
C3_IntegrityErrorUnreachable == ga_pc # "raised"


----------------------------------------------------------------------------
(* Properties of the loop next to the Allocation (checked under SpecLockstep) *)

\* C26: after every input (category, amount?) other than the "?" query, the
\* loop's remainder and allocations equal the remainder and vector of an
\* Allocation of the same transaction given the same calls, until the
\* remainder is zero and the loop is left.
C26_LoopMatchesAllocation ==
    /\ ga_amount = amount_curr
    /\ ga_allocations = allocation
    /\ ga_negative = negative
    /\ ga_original_amount = amount_orig

C26_Witness ==
    /\ calls >= 3
    /\ prev.called
    /\ prev.allocation[1] # 0
    /\ allocation[1] # prev.allocation[1]
    /\ allocation[2] # 0
    /\ ga_amount # 0
    /\ ga_amount # ga_original_amount

\* allocate(c, 0) followed by allocate(c) from the Allocation's state.
ZeroThenAll(c, t1, t2) ==
    LET r1 == AllocateResult(amount_curr, allocation, negative, c, Num(0), t1)
    IN  AllocateResult(r1.amount_curr, r1.allocation, negative, c, None, t2)

\* The inputs "c 0" and "c" read by the loop from its state (the second is
\* not read when the first already leaves a remainder of zero).
GaZeroThenAll(c, t1, t2) ==
    LET r1 == GaIteration(ga_amount, ga_allocations, ga_negative, <<c, Num(0)>>, t1)
    IN  IF r1.amount = 0 THEN r1
        ELSE GaIteration(r1.amount, r1.allocations, ga_negative, <<c>>, t2)

\* From every reachable state whose remainder is neither zero nor nan, the
\* pair ends with remainder zero, in the Allocation and in the loop.
C27_FiniteRemainderReachesZero ==
    (amount_curr # 0 /\ amount_curr # NaN) =>
        \A i \in 1..Len(ALLOC_COLUMNS), t1, t2 \in BOOLEAN :
            /\ ZeroThenAll(ALLOC_COLUMNS[i], t1, t2).amount_curr = 0
            /\ ga_pc = "prompt" => GaZeroThenAll(ALLOC_COLUMNS[i], t1, t2).amount = 0

\* C27 (as stated): from every reachable state with a non-zero remainder
\* and for every valid category c, allocate(c, 0) followed by allocate(c)
\* with the amount omitted ends with remainder zero, in the Allocation and
\* in the loop, so the loop is left once the operator supplies that pair.
C27_FullAllocationReachable ==
    /\ amount_curr # 0 =>
        \A i \in 1..Len(ALLOC_COLUMNS), t1, t2 \in BOOLEAN :
            /\ ZeroThenAll(ALLOC_COLUMNS[i], t1, t2).amount_curr = 0
            /\ ga_pc = "prompt" => GaZeroThenAll(ALLOC_COLUMNS[i], t1, t2).amount = 0
    /\ (PrevValid /\ prev.amount = None /\ prev.allocation[PrevIndex] = 0) =>
        (amount_curr = 0 /\ ga_amount = 0)

====
